---- MODULE Spec2Model ----
(***************************************************************************)
(* Soft-body lattice simulation (src/src/grid.rs, src/src/main.rs).        *)
(*                                                                         *)
(* f32 values are modelled in fixed point: the float v is the integer      *)
(* v * ONE, products and quotients are truncated towards zero, and the     *)
(* single value NaN stands for every non-finite f32 (NaN, +inf, -inf).     *)
(* Every operation of the step applied to a non-finite operand gives a     *)
(* non-finite result (its divisors are finite), so NaN is absorbing.       *)
(***************************************************************************)
EXTENDS Integers, Sequences, FiniteSets, TLC

VARIABLES
    \* the Grid (grid.rs:21-28)
    width, height, positions, velocities, fixed, neighbours,
    \* life of the Grid value: "none" before Grid::new, "ok" after it,
    \* "panic" / "hang" once a call on it has aborted or cannot return
    status,
    built,            \* get_neighbors has run
    lines,            \* the Vec<Vertex> of the last create_grid, <<>> once dropped
    drawn,            \* lines was built from the current positions
    \* a call of calculate_forces / calculate_forces_with_gravity in progress
    stepPc, stepGravity, stepExt, new_positions, new_velocities,
    pre,              \* positions, velocities, fixed, neighbours when the call began
    stepCount, extCount,
    \* history
    markedPos, markedVel,   \* position and velocity of a node when it was marked fixed
    restRun,                \* untouched Grid::new layout, stepped without gravity or perturbation only
    \* the process (main.rs)
    mainPc,                 \* main: "new", "neighbors", "fix", "spawn", then "render"
    writer, readers,        \* the RwLock around the Grid
    GRAVITY_ACTIVE,         \* static AtomicBool (main.rs:20)
    EXTERNAL_ACTIVE,        \* static AtomicBool EXTERNAL_MAGNITUDE (main.rs:22)
    simPc, current, sub, ticks,   \* the thread of run_threaded
    rpc, keys,              \* the event loop of render, and the key presses so far
    posStamp, velStamp,     \* sub-steps whose positions / velocities are in the Grid
    tickGravity, tickExternal   \* flag values the sub-steps of the running tick were run with

gridVars == << width, height, positions, velocities, fixed, neighbours, status, built >>
drawVars == << lines, drawn >>
stepVars == << stepPc, stepGravity, stepExt, new_positions, new_velocities, pre,
               stepCount, extCount >>
histVars == << markedPos, markedVel, restRun >>
progVars == << mainPc, writer, readers, GRAVITY_ACTIVE, EXTERNAL_ACTIVE, simPc, current,
               sub, ticks, rpc, keys, posStamp, velStamp, tickGravity, tickExternal >>
vars == << gridVars, drawVars, stepVars, histVars, progVars >>

\* ------------------------------------------------------------------ bounds
MaxDim == 3
MaxStepNodes == 2
MaxSteps == 2
MaxTicks == 2
MaxKeys == 1
MaxPerturbed == 1

\* ------------------------------------------------------- f32 arithmetic
ONE == 10^4
NaN == 0 - 2^30

IsFinite(a) == a # NaN

Abs(a) == IF a < 0 THEN 0 - a ELSE a
Sign(a) == IF a < 0 THEN 0 - 1 ELSE 1

ToF(n) == n * ONE

FNeg(a) == IF a = NaN THEN NaN ELSE 0 - a
FAdd(a, b) == IF a = NaN \/ b = NaN THEN NaN ELSE a + b
FSub(a, b) == IF a = NaN \/ b = NaN THEN NaN ELSE a - b

\* a * b / ONE without leaving 32 bits in the intermediate products
FMul(a, b) ==
    IF a = NaN \/ b = NaN THEN NaN
    ELSE LET x == Abs(a)
             y == Abs(b)
             xq == x \div ONE
             xr == x % ONE
             yq == y \div ONE
             yr == y % ONE
         IN  (Sign(a) * Sign(b)) *
             (xq * yq * ONE + xq * yr + xr * yq + (xr * yr) \div ONE)

\* a / b: a finite value over zero is +-inf and 0/0 is NaN, both non-finite
FDiv(a, b) ==
    IF a = NaN \/ b = NaN THEN NaN
    ELSE IF b = 0 THEN NaN
    ELSE LET x == Abs(a)
             y == Abs(b)
         IN  (Sign(a) * Sign(b)) * ((x \div y) * ONE + ((x % y) * ONE) \div y)

RECURSIVE ISqrtIn(_, _, _)
ISqrtIn(n, lo, hi) ==
    IF lo >= hi THEN lo
    ELSE LET mid == (lo + hi + 1) \div 2
         IN  IF mid * mid <= n THEN ISqrtIn(n, mid, hi) ELSE ISqrtIn(n, lo, mid - 1)

FSqrt(a) ==
    IF a = NaN \/ a < 0 THEN NaN ELSE ISqrtIn(a * ONE, 0, 46340)

Powf2(a) == FMul(a, a)

\* --------------------------------------------------- constants (grid.rs)
MASS == ONE \div 100
GRAVITY == 0 - ((981 * ONE) \div 100)
SpringRelaxHalved == ONE \div 2
SPRING_RELAX_DISTANCE == ONE
SPRING_COEFFICIENT == 10 * ONE
DAMPING_COEFFICIENT == (3 * ONE) \div 100
EXTERNAL_MAGNITUDE == (2 * ONE) \div 10
HALF == ONE \div 2
\* constants (main.rs)
DELTA_TIME == ONE \div 100
SubStepThreshold == 100
SubSteps == 20

\* pairs of samples of random.gen_range(-1.0..1.0), one per axis
RandPairs == { <<0 - ONE, ONE \div 2>>, <<ONE \div 2, 0 - ONE>> }

\* ------------------------------------------------------------ Grid::new
NodesOf(w, h) == 0 .. (w * h - 1)

get_index(h, n, m) == n * h + m

XOf(h, i) == i \div h
YOf(h, i) == i % h

y_offset == 10 * ONE

NewPosition(w, h, x, y) ==
    << FAdd(FMul(ToF(w \div 2), 0 - ONE), ToF(x)),
       FAdd(FAdd(y_offset, FMul(ToF(h \div 2), 0 - ONE)), ToF(y)) >>

NewPositions(w, h) ==
    [i \in NodesOf(w, h) |-> NewPosition(w, h, XOf(h, i), YOf(h, i))]

NewVelocities(w, h) == [i \in NodesOf(w, h) |-> <<0, 0>>]
NewFixed(w, h) == [i \in NodesOf(w, h) |-> FALSE]
NewNeighbours(w, h) == [i \in NodesOf(w, h) |-> <<>>]

\* -------------------------------------------------------- get_neighbors
\* get_neighbors without the push of the node at (x - 1, y)
NeighborsOfNoLeft(w, h, x, y) ==
    (IF x # w - 1 THEN <<get_index(h, x + 1, y)>> ELSE <<>>) \o
    (IF y # h - 1 THEN <<get_index(h, x, y + 1)>> ELSE <<>>) \o
    (IF y # 0     THEN <<get_index(h, x, y - 1)>> ELSE <<>>)

\* get_neighbors pushing the node at (x + 1, y) in the (x - 1, y) branch too
NeighborsOfTwice(w, h, x, y) ==
    (IF x # w - 1 THEN <<get_index(h, x + 1, y)>> ELSE <<>>) \o
    (IF x # 0     THEN <<get_index(h, x - 1, y)>> ELSE <<>>) \o
    (IF x # w - 1 THEN <<get_index(h, x + 1, y)>> ELSE <<>>) \o
    (IF y # h - 1 THEN <<get_index(h, x, y + 1)>> ELSE <<>>) \o
    (IF y # 0     THEN <<get_index(h, x, y - 1)>> ELSE <<>>)

NeighborsOf(w, h, x, y) ==
    (IF x # w - 1 THEN <<get_index(h, x + 1, y)>> ELSE <<>>) \o
    (IF x # 0     THEN <<get_index(h, x - 1, y)>> ELSE <<>>) \o
    (IF y # h - 1 THEN <<get_index(h, x, y + 1)>> ELSE <<>>) \o
    (IF y # 0     THEN <<get_index(h, x, y - 1)>> ELSE <<>>)

get_neighbors(w, h) ==
    [i \in NodesOf(w, h) |-> NeighborsOf(w, h, XOf(h, i), YOf(h, i))]

\* ---------------------------------------------------------- create_grid
\* the eight vertices pushed for the cell whose lower corner is (x, y)
CellLines(pos, h, x, y) ==
    << pos[get_index(h, x, y)],         pos[get_index(h, x, y + 1)],
       pos[get_index(h, x, y + 1)],     pos[get_index(h, x + 1, y + 1)],
       pos[get_index(h, x + 1, y + 1)], pos[get_index(h, x + 1, y)],
       pos[get_index(h, x + 1, y)],     pos[get_index(h, x, y)] >>

RECURSIVE CreateLoop(_, _, _, _, _)
CreateLoop(pos, w, h, x, y) ==
    IF x >= w - 1 THEN <<>>
    ELSE IF y >= h - 1 THEN CreateLoop(pos, w, h, x + 1, 0)
    ELSE CellLines(pos, h, x, y) \o CreateLoop(pos, w, h, x, y + 1)

\* for width >= 1 and height >= 1 (width - 1 does not wrap)
create_grid(pos, w, h) == CreateLoop(pos, w, h, 0, 0)

\* ---------------------------------------------------- calculate_forces
VAdd(a, b) == << FAdd(a[1], b[1]), FAdd(a[2], b[2]) >>

\* one iteration of the loop over neighbours[index]
SpringForce(position, neighbor_position) ==
    LET displacement_x == FSub(neighbor_position[1], position[1])
        displacement_y == FSub(neighbor_position[2], position[2])
        distance == FSqrt(FAdd(Powf2(displacement_x), Powf2(displacement_y)))
        magnitude == FMul(SPRING_COEFFICIENT, FSub(distance, SPRING_RELAX_DISTANCE))
    IN  << FDiv(FMul(magnitude, displacement_x), distance),
           FDiv(FMul(magnitude, displacement_y), distance) >>

RECURSIVE SpringLoop(_, _, _, _, _)
SpringLoop(pos, position, nbrs, k, total_force) ==
    IF k > Len(nbrs) THEN total_force
    ELSE SpringLoop(pos, position, nbrs, k + 1,
                    VAdd(total_force, SpringForce(position, pos[nbrs[k]])))

\* the closure of the first par_iter past its fixed[index] test.
\* gravity selects calculate_forces_with_gravity; rnd is the pair of samples
\* drawn from the thread's generator when externalbool holds.
FreeNodePosition(pos, vel, fx, nb, index, delta_t, gravity, externalbool, rnd) ==
    LET position == pos[index]
        current_velocity == vel[index]
        springs == SpringLoop(pos, position, nb[index], 1, <<0, 0>>)
        damper == << FMul(FNeg(current_velocity[1]), DAMPING_COEFFICIENT),
                     FMul(FNeg(current_velocity[2]), DAMPING_COEFFICIENT) >>
        damped == VAdd(springs, damper)
        weighted == IF gravity
                    THEN << damped[1], FAdd(damped[2], FMul(GRAVITY, MASS)) >>
                    ELSE damped
        total_force == IF externalbool
                       THEN VAdd(weighted, << FMul(rnd[1], EXTERNAL_MAGNITUDE),
                                              FMul(rnd[2], EXTERNAL_MAGNITUDE) >>)
                       ELSE weighted
        acceleration_x == FDiv(total_force[1], MASS)
        acceleration_y == FDiv(total_force[2], MASS)
    IN  << FAdd(FAdd(position[1], FMul(current_velocity[1], delta_t)),
                FMul(FMul(HALF, acceleration_x), Powf2(delta_t))),
           FAdd(FAdd(position[2], FMul(current_velocity[2], delta_t)),
                FMul(FMul(HALF, acceleration_y), Powf2(delta_t))) >>

\* the first closure without its early return for fixed nodes
NodePositionUnpinned(pos, vel, fx, nb, index, delta_t, gravity, externalbool, rnd) ==
    FreeNodePosition(pos, vel, fx, nb, index, delta_t, gravity, externalbool, rnd)

\* the closure of the first par_iter: the new position of node index
NodePosition(pos, vel, fx, nb, index, delta_t, gravity, externalbool, rnd) ==
    IF fx[index] THEN pos[index]
    ELSE FreeNodePosition(pos, vel, fx, nb, index, delta_t, gravity, externalbool, rnd)

\* the closure of the second par_iter: the new velocity of node index
NodeVelocity(new_position, pos, vel, fx, index, delta_t) ==
    IF fx[index] THEN vel[index]
    ELSE << FDiv(FSub(new_position[1], pos[index][1]), delta_t),
            FDiv(FSub(new_position[2], pos[index][2]), delta_t) >>

\* a whole step without external perturbation, as a function of the snapshot
StepPositions(pos, vel, fx, nb, delta_t, gravity) ==
    [i \in DOMAIN pos |->
        NodePosition(pos, vel, fx, nb, i, delta_t, gravity, FALSE, <<0, 0>>)]

StepVelocities(pos, vel, fx, nb, delta_t, gravity) ==
    [i \in DOMAIN pos |->
        NodeVelocity(StepPositions(pos, vel, fx, nb, delta_t, gravity)[i],
                     pos, vel, fx, i, delta_t)]

\* =====================================================================
\* The Grid under its public interface: any caller of grid.rs
\* =====================================================================
Nodes == NodesOf(width, height)
Empty == [i \in {} |-> 0]

\* offsets by which a caller moves node 0 before stepping (positions is pub)
Displacements == { <<ONE, 0>>, <<0, ONE>>, <<ONE \div 2, ONE \div 4>> }

Init ==
    /\ width = 0 /\ height = 0
    /\ positions = Empty /\ velocities = Empty /\ fixed = Empty /\ neighbours = Empty
    /\ status = "none" /\ built = FALSE
    /\ lines = <<>> /\ drawn = FALSE
    /\ stepPc = "idle" /\ stepGravity = FALSE /\ stepExt = FALSE
    /\ new_positions = Empty /\ new_velocities = Empty
    /\ pre = << Empty, Empty, Empty, Empty >>
    /\ stepCount = 0 /\ extCount = 0
    /\ markedPos = Empty /\ markedVel = Empty
    /\ restRun = TRUE
    /\ mainPc = "new" /\ writer = FALSE /\ readers = 0
    /\ GRAVITY_ACTIVE = TRUE /\ EXTERNAL_ACTIVE = FALSE
    /\ simPc = "unspawned" /\ current = FALSE /\ sub = 0 /\ ticks = 0
    /\ rpc = "unstarted" /\ keys = 0
    /\ posStamp = 0 /\ velStamp = 0
    /\ tickGravity = {} /\ tickExternal = {}

\* Grid::new(w, h)
New(w, h) ==
    /\ status = "none"
    /\ width' = w /\ height' = h
    /\ positions' = NewPositions(w, h)
    /\ velocities' = NewVelocities(w, h)
    /\ fixed' = NewFixed(w, h)
    /\ neighbours' = NewNeighbours(w, h)
    /\ status' = "ok"
    /\ markedPos' = NewPositions(w, h) /\ markedVel' = NewVelocities(w, h)
    /\ UNCHANGED << built, drawVars, stepVars, restRun >>
    /\ UNCHANGED progVars

\* grid.get_neighbors()
GetNeighbors ==
    /\ status = "ok" /\ stepPc = "idle"
    /\ neighbours' = get_neighbors(width, height)
    /\ built' = TRUE
    /\ UNCHANGED << width, height, positions, velocities, fixed, status,
                    drawVars, stepVars, histVars >>
    /\ UNCHANGED progVars

\* grid.fixed[i] = true, the configuration that precedes the step loop
MarkFixed(i) ==
    /\ status = "ok" /\ stepPc = "idle"
    /\ i \in Nodes /\ ~fixed[i]
    /\ stepCount = 0
    /\ width * height <= MaxStepNodes
    /\ fixed' = [fixed EXCEPT ![i] = TRUE]
    /\ markedPos' = [markedPos EXCEPT ![i] = positions[i]]
    /\ markedVel' = [markedVel EXCEPT ![i] = velocities[i]]
    /\ UNCHANGED << width, height, positions, velocities, neighbours, status, built,
                    drawVars, stepVars, restRun >>
    /\ UNCHANGED progVars

\* grid.positions[0] = grid.positions[0] + d, before the first step
Place(d) ==
    /\ status = "ok" /\ stepPc = "idle" /\ stepCount = 0
    /\ 0 \in Nodes /\ ~fixed[0]
    /\ width * height <= MaxStepNodes
    /\ positions = NewPositions(width, height)
    /\ positions' = [positions EXCEPT ![0] = VAdd(@, d)]
    /\ restRun' = FALSE
    /\ drawn' = FALSE
    /\ UNCHANGED << width, height, velocities, fixed, neighbours, status, built,
                    lines, stepVars, markedPos, markedVel >>
    /\ UNCHANGED progVars

\* grid.create_grid(): width - 1 and height - 1 are usize subtractions, which
\* panic when overflow checks are on and wrap otherwise; a wrapped bound
\* makes the loop index past the end of positions (panic) or, for
\* 0 x 1, spin without pushing anything.
CreateGrid ==
    /\ status = "ok" /\ stepPc = "idle"
    /\ IF width >= 1 /\ height >= 1
       THEN /\ lines' = create_grid(positions, width, height)
            /\ drawn' = TRUE
            /\ UNCHANGED status
       ELSE IF width = 1
       THEN /\ lines' = <<>> /\ drawn' = TRUE
            /\ UNCHANGED status
       ELSE /\ status' \in (IF width = 0 /\ height = 1
                             THEN {"panic", "hang"} ELSE {"panic"})
            /\ UNCHANGED << lines, drawn >>
    /\ UNCHANGED << width, height, positions, velocities, fixed, neighbours, built,
                    stepVars, histVars >>
    /\ UNCHANGED progVars

\* ---- one call of calculate_forces(DELTA_TIME, e) (g = FALSE) or of
\* ---- calculate_forces_with_gravity(DELTA_TIME, e) (g = TRUE), on a lattice
\* ---- whose neighbour graph is built
BeginStep(g, e) ==
    /\ status = "ok" /\ stepPc = "idle"
    /\ built
    /\ stepCount < MaxSteps
    /\ e => extCount < MaxPerturbed
    /\ width * height <= MaxStepNodes
    /\ stepPc' = "positions"
    /\ stepGravity' = g /\ stepExt' = e
    /\ new_positions' = Empty /\ new_velocities' = Empty
    /\ pre' = << positions, velocities, fixed, neighbours >>
    /\ restRun' = (restRun /\ ~g /\ ~e)
    /\ lines' = <<>> /\ drawn' = FALSE
    /\ UNCHANGED << gridVars, stepCount, extCount, markedPos, markedVel >>
    /\ UNCHANGED progVars

\* a first map that stores each result into the array it reads from
Phase1SourceInPlace ==
    [i \in Nodes |-> IF i \in DOMAIN new_positions THEN new_positions[i] ELSE positions[i]]

\* what the first map reads: let positions = &self.positions
Phase1Source == positions

\* the first par_iter evaluates its closure for node i, in any order
EvalPosition(i) ==
    /\ stepPc = "positions"
    /\ i \in Nodes \ DOMAIN new_positions
    /\ \E rnd \in (IF stepExt /\ ~fixed[i] THEN RandPairs ELSE {<<0, 0>>}) :
          new_positions' = new_positions @@
              (i :> NodePosition(Phase1Source, velocities, fixed, neighbours, i,
                                 DELTA_TIME, stepGravity, stepExt, rnd))
    /\ UNCHANGED << gridVars, drawVars, stepPc, stepGravity, stepExt, new_velocities,
                    pre, stepCount, extCount, histVars >>
    /\ UNCHANGED progVars

\* collect() of the first map returns once every node is evaluated
Collect ==
    /\ stepPc = "positions"
    /\ DOMAIN new_positions = Nodes
    /\ stepPc' = "velocities"
    /\ UNCHANGED << gridVars, drawVars, stepGravity, stepExt, new_positions,
                    new_velocities, pre, stepCount, extCount, histVars >>
    /\ UNCHANGED progVars

\* the second par_iter evaluates its closure for node i, in any order
EvalVelocity(i) ==
    /\ stepPc = "velocities"
    /\ i \in Nodes \ DOMAIN new_velocities
    /\ new_velocities' = new_velocities @@
          (i :> NodeVelocity(new_positions[i], positions, velocities, fixed, i, DELTA_TIME))
    /\ UNCHANGED << gridVars, drawVars, stepPc, stepGravity, stepExt, new_positions,
                    pre, stepCount, extCount, histVars >>
    /\ UNCHANGED progVars

\* self.positions = new_positions; self.velocities = new_velocities;
Commit ==
    /\ stepPc = "velocities"
    /\ DOMAIN new_velocities = Nodes
    /\ positions' = new_positions
    /\ velocities' = new_velocities
    /\ stepPc' = "idle"
    /\ stepCount' = stepCount + 1
    /\ extCount' = extCount + (IF stepExt THEN 1 ELSE 0)
    /\ new_positions' = Empty /\ new_velocities' = Empty
    /\ UNCHANGED << width, height, fixed, neighbours, status, built, drawVars,
                    stepGravity, stepExt, pre, histVars >>
    /\ UNCHANGED progVars

GridNext ==
    \/ \E w \in 0 .. MaxDim, h \in 0 .. MaxDim : New(w, h)
    \/ GetNeighbors
    \/ \E i \in Nodes : MarkFixed(i)
    \/ \E d \in Displacements : Place(d)
    \/ CreateGrid
    \/ \E g \in BOOLEAN, e \in BOOLEAN : BeginStep(g, e)
    \/ \E i \in Nodes : EvalPosition(i)
    \/ Collect
    \/ \E i \in Nodes : EvalVelocity(i)
    \/ Commit

SpecGrid == Init /\ [][GridNext]_vars

\* =====================================================================
\* The process: main, the thread of run_threaded and the event loop of render
\* =====================================================================
\* let grid = Arc::new(RwLock::new(Grid::new(WIDTH, HEIGHT))); the lattice
\* is scaled down to at most MaxStepNodes nodes
MainNew(w, h) ==
    /\ mainPc = "new"
    /\ w * h <= MaxStepNodes
    /\ width' = w /\ height' = h
    /\ positions' = NewPositions(w, h)
    /\ velocities' = NewVelocities(w, h)
    /\ fixed' = NewFixed(w, h)
    /\ neighbours' = NewNeighbours(w, h)
    /\ status' = "ok"
    /\ markedPos' = NewPositions(w, h) /\ markedVel' = NewVelocities(w, h)
    /\ mainPc' = "neighbors"
    /\ UNCHANGED << built, drawVars, stepVars, restRun, writer, readers, GRAVITY_ACTIVE,
                    EXTERNAL_ACTIVE, simPc, current, sub, ticks, rpc, keys, posStamp,
                    velStamp, tickGravity, tickExternal >>

\* grid.write().unwrap().get_neighbors();
MainGetNeighbors ==
    /\ mainPc = "neighbors"
    /\ neighbours' = get_neighbors(width, height)
    /\ built' = TRUE
    /\ mainPc' = "fix"
    /\ UNCHANGED << width, height, positions, velocities, fixed, status, drawVars, stepVars,
                    histVars, writer, readers, GRAVITY_ACTIVE, EXTERNAL_ACTIVE, simPc,
                    current, sub, ticks, rpc, keys, posStamp, velStamp, tickGravity,
                    tickExternal >>

\* fixed_1, fixed_2 and the block that sets both flags under one write guard
MainFix ==
    /\ mainPc = "fix"
    /\ LET fixed_1 == get_index(height, 0, height - 1)
           fixed_2 == get_index(height, width - 1, height - 1)
       IN  /\ fixed' = [i \in Nodes |-> fixed[i] \/ i = fixed_1 \/ i = fixed_2]
           /\ markedPos' = positions
           /\ markedVel' = velocities
    /\ mainPc' = "spawn"
    /\ UNCHANGED << width, height, positions, velocities, neighbours, status, built,
                    drawVars, stepVars, restRun, writer, readers, GRAVITY_ACTIVE,
                    EXTERNAL_ACTIVE, simPc, current, sub, ticks, rpc, keys, posStamp,
                    velStamp, tickGravity, tickExternal >>

\* run_threaded(update_grid, thread_count) and then render(grid.clone())
MainSpawn ==
    /\ mainPc = "spawn"
    /\ mainPc' = "render"
    /\ simPc' = "loop"
    /\ rpc' = "idle"
    /\ UNCHANGED << gridVars, drawVars, stepVars, histVars, writer, readers,
                    GRAVITY_ACTIVE, EXTERNAL_ACTIVE, current, sub, ticks, keys, posStamp,
                    velStamp, tickGravity, tickExternal >>

\* ---- the thread of run_threaded
\* sub-steps of one tick: if HEIGHT < 100 { for _ in 0..20 {..} } else {..}
BatchLen(h) == IF h < SubStepThreshold THEN SubSteps ELSE 1

\* while start_time.elapsed().as_secs() < LOG_DURATION: the loop goes on, and
\* grid.write() returns once no guard is alive
SimAcquire ==
    /\ simPc = "loop"
    /\ ticks < MaxTicks
    /\ ~writer /\ readers = 0
    /\ writer' = TRUE
    /\ simPc' = "locked"
    /\ UNCHANGED << gridVars, drawVars, stepVars, histVars, mainPc, readers,
                    GRAVITY_ACTIVE, EXTERNAL_ACTIVE, current, sub, ticks, rpc, keys,
                    posStamp, velStamp, tickGravity, tickExternal >>

\* the loop condition fails: the thread prints its average and ends
SimExit ==
    /\ simPc = "loop"
    /\ simPc' = "done"
    /\ UNCHANGED << gridVars, drawVars, stepVars, histVars, mainPc, writer, readers,
                    GRAVITY_ACTIVE, EXTERNAL_ACTIVE, current, sub, ticks, rpc, keys,
                    posStamp, velStamp, tickGravity, tickExternal >>

\* let current = EXTERNAL_MAGNITUDE.load(Ordering::Relaxed);
SimSample ==
    /\ simPc = "locked"
    /\ current' = EXTERNAL_ACTIVE
    /\ sub' = 0
    /\ simPc' = "batch"
    /\ UNCHANGED << gridVars, drawVars, stepVars, histVars, mainPc, writer, readers,
                    GRAVITY_ACTIVE, EXTERNAL_ACTIVE, ticks, rpc, keys, posStamp, velStamp,
                    tickGravity, tickExternal >>

\* the samples the generator hands the free nodes in one sub-step; once
\* MaxPerturbed perturbed sub-steps are explored every draw is the same pair
RandomDraws(e) ==
    LET pairs == IF e /\ extCount < MaxPerturbed THEN RandPairs
                 ELSE { <<0 - ONE, ONE \div 2>> }
    IN  { r \in [Nodes -> pairs \cup {<<0, 0>>}] :
            \A i \in Nodes : (r[i] = <<0, 0>>) <=> (fixed[i] \/ ~e) }

\* one sub-step up to self.positions = new_positions: GRAVITY_ACTIVE is
\* loaded, both maps run and the positions are replaced
SimStepPositions ==
    /\ simPc = "batch"
    /\ sub < BatchLen(height)
    /\ \E rnd \in RandomDraws(current) :
         LET g == GRAVITY_ACTIVE
             np == [i \in Nodes |->
                      NodePosition(positions, velocities, fixed, neighbours, i,
                                   DELTA_TIME, g, current, rnd[i])]
             nv == [i \in Nodes |->
                      NodeVelocity(np[i], positions, velocities, fixed, i, DELTA_TIME)]
         IN  /\ positions' = np
             /\ new_velocities' = nv
             /\ stepGravity' = g /\ stepExt' = current
             /\ tickGravity' = tickGravity \cup {g}
             /\ tickExternal' = tickExternal \cup {current}
    /\ posStamp' = posStamp + 1
    /\ extCount' = IF current /\ extCount < MaxPerturbed THEN extCount + 1 ELSE extCount
    /\ simPc' = "assign"
    /\ UNCHANGED << width, height, velocities, fixed, neighbours, status, built, drawVars,
                    stepPc, new_positions, pre, stepCount, histVars, mainPc, writer,
                    readers, GRAVITY_ACTIVE, EXTERNAL_ACTIVE, current, sub, ticks, rpc,
                    keys, velStamp >>

\* self.velocities = new_velocities; and the return to the for loop
SimStepVelocities ==
    /\ simPc = "assign"
    /\ velocities' = new_velocities
    /\ new_velocities' = Empty
    /\ velStamp' = velStamp + 1
    /\ sub' = sub + 1
    /\ simPc' = "batch"
    /\ UNCHANGED << width, height, positions, fixed, neighbours, status, built, drawVars,
                    stepPc, stepGravity, stepExt, new_positions, pre, stepCount, extCount,
                    histVars, mainPc, writer, readers, GRAVITY_ACTIVE, EXTERNAL_ACTIVE,
                    current, ticks, rpc, keys, posStamp, tickGravity, tickExternal >>

\* the block ends: the write guard is dropped, then thread::sleep
SimRelease ==
    /\ simPc = "batch"
    /\ sub = BatchLen(height)
    /\ writer' = FALSE
    /\ ticks' = ticks + 1
    /\ tickGravity' = {} /\ tickExternal' = {}
    /\ simPc' = "loop"
    /\ UNCHANGED << gridVars, drawVars, stepVars, histVars, mainPc, readers,
                    GRAVITY_ACTIVE, EXTERNAL_ACTIVE, current, sub, rpc, keys, posStamp,
                    velStamp >>

\* ---- the event loop of render
\* KeyboardInput, Pressed, "G" or "g"
KeyG ==
    /\ rpc = "idle"
    /\ keys < MaxKeys
    /\ GRAVITY_ACTIVE' = ~GRAVITY_ACTIVE
    /\ keys' = keys + 1
    /\ UNCHANGED << gridVars, drawVars, stepVars, histVars, mainPc, writer, readers,
                    EXTERNAL_ACTIVE, simPc, current, sub, ticks, rpc, posStamp, velStamp,
                    tickGravity, tickExternal >>

\* KeyboardInput, Pressed, "W" or "w"
KeyW ==
    /\ rpc = "idle"
    /\ keys < MaxKeys
    /\ EXTERNAL_ACTIVE' = ~EXTERNAL_ACTIVE
    /\ keys' = keys + 1
    /\ UNCHANGED << gridVars, drawVars, stepVars, histVars, mainPc, writer, readers,
                    GRAVITY_ACTIVE, simPc, current, sub, ticks, rpc, posStamp, velStamp,
                    tickGravity, tickExternal >>

\* a call of grid.read() returns while no write guard is alive
ReadAvailableAlways == TRUE

ReadAvailable == ~writer

\* RedrawRequested: grid.read().unwrap().create_grid() builds the vertices
RedrawRead ==
    /\ rpc = "idle"
    /\ ReadAvailable
    /\ readers' = readers + 1
    /\ lines' = create_grid(positions, width, height)
    /\ drawn' = TRUE
    /\ rpc' = "reading"
    /\ UNCHANGED << gridVars, stepVars, histVars, mainPc, writer, GRAVITY_ACTIVE,
                    EXTERNAL_ACTIVE, simPc, current, sub, ticks, keys, posStamp, velStamp,
                    tickGravity, tickExternal >>

\* the statement ends: the read guard and the vertices are dropped
RedrawDone ==
    /\ rpc = "reading"
    /\ readers' = readers - 1
    /\ lines' = <<>>
    /\ drawn' = FALSE
    /\ rpc' = "idle"
    /\ UNCHANGED << gridVars, stepVars, histVars, mainPc, writer, GRAVITY_ACTIVE,
                    EXTERNAL_ACTIVE, simPc, current, sub, ticks, keys, posStamp, velStamp,
                    tickGravity, tickExternal >>

Next ==
    \/ \E w \in 1 .. MaxStepNodes, h \in 1 .. MaxStepNodes : MainNew(w, h)
    \/ MainGetNeighbors
    \/ MainFix
    \/ MainSpawn
    \/ SimAcquire
    \/ SimExit
    \/ SimSample
    \/ SimStepPositions
    \/ SimStepVelocities
    \/ SimRelease
    \/ KeyG
    \/ KeyW
    \/ RedrawRead
    \/ RedrawDone

Spec == Init /\ [][Next]_vars

\* =====================================================================
\* Properties of the Grid (checked under SpecGrid)
\* =====================================================================
Range(seq) == { seq[k] : k \in 1 .. Len(seq) }
FiniteVec(v) == IsFinite(v[1]) /\ IsFinite(v[2])
IdleAfterStep == status = "ok" /\ stepPc = "idle" /\ stepCount > 0

\* C1: a node marked fixed keeps the position and the velocity it had when it
\* was marked, through every step of either variant, with or without
\* external perturbation, whatever its neighbours do.
FixedNodeInvariance ==
    \A i \in Nodes :
        fixed[i] => positions[i] = markedPos[i] /\ velocities[i] = markedVel[i]

\* a fixed node next to a free node that has moved, after steps of which one
\* was perturbed
FixedNodeWitness ==
    /\ IdleAfterStep /\ stepCount >= 2 /\ extCount >= 1
    /\ \E i \in Nodes : \E j \in Range(neighbours[i]) :
          fixed[i] /\ ~fixed[j] /\ positions[j] # NewPositions(width, height)[j]

\* C3: without external perturbation every per-node result of a step, in
\* whatever order the two maps evaluate the nodes, and so the state the step
\* commits, is the function of the state at the call, DELTA_TIME and the
\* gravity flag.
StepDeterminism ==
    ~stepExt =>
        LET P == StepPositions(pre[1], pre[2], pre[3], pre[4], DELTA_TIME, stepGravity)
            V == StepVelocities(pre[1], pre[2], pre[3], pre[4], DELTA_TIME, stepGravity)
        IN  /\ \A i \in DOMAIN new_positions : new_positions[i] = P[i]
            /\ \A i \in DOMAIN new_velocities : new_velocities[i] = V[i]
            /\ IdleAfterStep => positions = P /\ velocities = V

\* an unperturbed step has moved two free nodes joined by a spring
StepDeterminismWitness ==
    /\ IdleAfterStep /\ ~stepExt
    /\ \E i \in Nodes : \E j \in Range(pre[4][i]) :
          /\ ~fixed[i] /\ ~fixed[j]
          /\ positions[i] # pre[1][i] /\ positions[j] # pre[1][j]

\* C4: a step from a state in which a free node and a neighbour of it have
\* the same position leaves that node's position and velocity finite.
DegenerateGeometryHandled ==
    IdleAfterStep =>
        \A i \in Nodes :
            ( /\ ~pre[3][i]
              /\ \A j \in Nodes : FiniteVec(pre[1][j]) /\ FiniteVec(pre[2][j])
              /\ \E j \in Range(pre[4][i]) : pre[1][j] = pre[1][i] )
            => FiniteVec(positions[i]) /\ FiniteVec(velocities[i])

\* C5: no Grid has a zero dimension: Grid::new(0, h) and Grid::new(w, 0) fail.
ZeroSizeRejected ==
    status # "none" => width >= 1 /\ height >= 1

\* C6: once get_neighbors has run, and after any steps, j in neighbours[i]
\* implies i in neighbours[j].
AdjacencySymmetry ==
    built => \A i \in Nodes : \A j \in Range(neighbours[i]) :
                 j \in Nodes /\ i \in Range(neighbours[j])

\* a lattice with edges whose graph is built and which has been stepped
AdjacencySymmetryWitness ==
    /\ built /\ IdleAfterStep
    /\ \E i \in Nodes : neighbours[i] # <<>>

OnBorderX(i) == XOf(height, i) \in {0, width - 1}
OnBorderY(i) == YOf(height, i) \in {0, height - 1}
ExpectedDegree(i) ==
    IF OnBorderX(i) /\ OnBorderY(i) THEN 2
    ELSE IF OnBorderX(i) \/ OnBorderY(i) THEN 3
    ELSE 4
AxisAdjacent(i, j) ==
    Abs(XOf(height, i) - XOf(height, j)) + Abs(YOf(height, i) - YOf(height, j)) = 1

\* C7: in a W x H lattice with W, H >= 2 corners have 2 neighbours, other
\* boundary nodes 3 and interior nodes 4, each listed once and each the
\* index of an in-bounds coordinate one axis step away; the node of a 1 x 1
\* lattice has none.
DegreeDistribution ==
    built =>
        /\ (width >= 2 /\ height >= 2) =>
              \A i \in Nodes :
                  /\ Len(neighbours[i]) = ExpectedDegree(i)
                  /\ Cardinality(Range(neighbours[i])) = Len(neighbours[i])
                  /\ \A j \in Range(neighbours[i]) : j \in Nodes /\ AxisAdjacent(i, j)
        /\ (width = 1 /\ height = 1) => neighbours[0] = <<>>

\* a built lattice that has corner, border and interior nodes
DegreeDistributionWitness ==
    built /\ width >= 3 /\ height >= 3

Segments == { << lines[2 * k - 1], lines[2 * k] >> : k \in 1 .. (Len(lines) \div 2) }
Joins(seg, a, b) ==
    \/ seg = << positions[a], positions[b] >>
    \/ seg = << positions[b], positions[a] >>

\* C8: the vertex pairs of create_grid hold a segment between the positions
\* of every two adjacent nodes and no segment between two nodes that are
\* not adjacent, in every lattice of positive dimensions.
DrawnCoversEdges ==
    (drawn /\ built /\ width >= 1 /\ height >= 1) =>
        /\ \A a \in Nodes : \A b \in Range(neighbours[a]) :
              \E seg \in Segments : Joins(seg, a, b)
        /\ \A seg \in Segments :
              \E a \in Nodes : \E b \in Range(neighbours[a]) : Joins(seg, a, b)

\* C9: a lattice laid out by Grid::new whose graph is built, with any nodes
\* fixed, stepped without gravity and without perturbation, keeps every
\* position and every velocity.
RestEquilibrium ==
    (restRun /\ status = "ok") =>
        /\ positions = NewPositions(width, height)
        /\ velocities = NewVelocities(width, height)
        /\ \A i \in DOMAIN new_positions : new_positions[i] = positions[i]
        /\ \A i \in DOMAIN new_velocities : new_velocities[i] = <<0, 0>>

\* two steps at rest of a lattice with a spring between a fixed and a free node
RestEquilibriumWitness ==
    /\ restRun /\ built /\ IdleAfterStep /\ stepCount >= 2
    /\ \E i \in Nodes : \E j \in Range(pre[4][i]) : ~fixed[i] /\ fixed[j]

\* =====================================================================
\* Properties of the process (checked under Spec)
\* =====================================================================
\* C2: whatever the interleaving, the lattice the renderer reads under the
\* read lock is the initial one or the one after a whole number of batches
\* of 20 sub-steps, with positions and velocities of the same sub-step.
BatchAtomicity ==
    rpc = "reading" =>
        /\ posStamp = velStamp
        /\ posStamp % SubSteps = 0
        /\ lines = create_grid(positions, width, height)

\* the renderer reads a lattice that a completed batch has moved
BatchAtomicityWitness ==
    /\ rpc = "reading"
    /\ posStamp >= SubSteps
    /\ positions # NewPositions(width, height)

\* C10: all sub-steps of one tick run the same variant (gravity or not) with
\* the same external flag.
TogglesSampledOncePerTick ==
    Cardinality(tickGravity) <= 1 /\ Cardinality(tickExternal) <= 1
====
